---- MODULE Spec2Model ----
(***************************************************************************)
(* Model of the image viewer's session state and event handlers            *)
(* (src/main.py).  Every handler of main() is one action; the two picker   *)
(* handlers are split at their `await`, the only point where the event     *)
(* loop can run another handler before they finish.  A handler that raises *)
(* keeps the assignments it made before the raise and records the          *)
(* exception in `fault`.                                                   *)
(***************************************************************************)
EXTENDS Integers, Sequences, FiniteSets, TLC

VARIABLES
    selected_images_paths,  \* main.py:355  list of paths
    current_image,          \* main.py:357  None or a decoded image
    current_image_ind,      \* main.py:359  index into selected_images_paths
    image_container_src,    \* image_container.src, the displayed payload
    visible,                \* the .visible flag of every widget that has one
    save_file_btn_disabled, \* save_file_btn.disabled
    crop_area,              \* crop_area.width / .height
    cropper,                \* cropper.left / .top (the Stack)
    crop_gesture_decector,  \* crop_gesture_decector.left / .top
    resize_handle,          \* resize_handle.width / .height (the GestureDetector)
    pending,                \* picker dialogs awaited and not yet answered
    unreadable,             \* files Image.open cannot decode
    fault,                  \* exception that ended the last handler, or "none"
    last,                   \* name of the last handler that ran
    answer,                 \* what the dialog returned to it, if it was a confirmed pick
    replaced,               \* the current_image it replaced, if it was a completed swipe
    app                     \* the session and widgets of app.py (see below)

vars == << selected_images_paths, current_image, current_image_ind,
           image_container_src, visible, save_file_btn_disabled, crop_area,
           cropper, crop_gesture_decector, resize_handle, pending,
           unreadable, fault, last, answer, replaced, app >>

session == << selected_images_paths, current_image, current_image_ind >>

widgets == << image_container_src, visible, save_file_btn_disabled >>

geometry == << crop_area, cropper, crop_gesture_decector, resize_handle >>

-----------------------------------------------------------------------------
(* Bounds of the model *)

\* picker dialogs of one kind that may be open at once
MaxPending == 1

\* largest |width| / |height| the resize drags are followed to
MaxExtent == 300

\* largest left / top the move drags are followed to
MaxOffset == 50

-----------------------------------------------------------------------------
(* Program constants *)

resize_handle_size == 20

crop_area_width == 300

crop_area_height == 300

\* Optional values: None is the empty tuple, a present value v is << v >>
None == << >>

Some(v) == << v >>

Val(o) == o[1]

-----------------------------------------------------------------------------
(* The file system and the dialogs' answers *)

\* A path is <<stem, suffix>>; Path.suffix is its second component.
Children == << <<"a", ".png">>, <<"b", ".txt">>, <<"c", ".JPG">>, <<"d", ".webp">> >>

Files == { Children[i] : i \in 1..Len(Children) }

\* (mutant) the suffix is compared as spelled
lower_as_spelled(s) == s

\* str.lower() on the suffixes that occur
lower(s) ==
    CASE s = ".JPG"  -> ".jpg"
      [] s = ".JPEG" -> ".jpeg"
      [] s = ".PNG"  -> ".png"
      [] s = ".WEBP" -> ".webp"
      [] s = ".TXT"  -> ".txt"
      [] OTHER       -> s

suffix(path) == path[2]

\* the elements of seq that are in keep, in the order of seq
SelectFrom(seq, keep) == SelectSeq(seq, LAMBDA p : p \in keep)

\* Path(selected_dir).iterdir(): a directory holds some of Children, which the
\* OS enumerates in a fixed order.
DirListings == { SelectFrom(Children, S) : S \in SUBSET Files }

\* the list comprehension of handle_pick_dir
AllowedSuffixes == { ".jpg", ".jpeg", ".png", ".webp" }

FilterImages(listing) ==
    SelectSeq(listing, LAMBDA path : lower(suffix(path)) \in AllowedSuffixes)

\* pick_files(allowed_extensions=[...]): the dialog offers only files with an
\* allowed extension; the answer is a non-empty multi-selection of them.
PickableFiles == { p \in Files : lower(suffix(p)) \in { ".jpg", ".jpeg", ".png", ".webp" } }

FileSelections == { SelectFrom(Children, S) : S \in (SUBSET PickableFiles) \ {{}} }

-----------------------------------------------------------------------------
(* Images (the imaging library) *)

NativeSize(path) ==
    CASE path[1] = "a" -> << 200, 200 >>
      [] path[1] = "c" -> << 200, 100 >>
      [] OTHER         -> << 100, 200 >>

\* Image.open(path)
Open(path) == [ path |-> path, size |-> NativeSize(path), turns |-> 0, crops |-> << >> ]

\* (mutant) expand=False: the canvas keeps its size
Rotate_no_expand(image, angle) ==
    [ image EXCEPT !.turns = (image.turns + (IF angle = 90 THEN 1 ELSE 3)) % 4 ]

\* Image.rotate(angle, expand=True) for angle = 90 (counter-clockwise) or -90
Rotate(image, angle) ==
    [ image EXCEPT !.size  = << image.size[2], image.size[1] >>,
                   !.turns = (image.turns + (IF angle = 90 THEN 1 ELSE 3)) % 4 ]

\* Image.crop(box) raises ValueError when right < left or bottom < top
CropOk(box) == box[3] >= box[1] /\ box[4] >= box[2]

Crop(image, box) ==
    [ image EXCEPT !.size  = << box[3] - box[1], box[4] - box[2] >>,
                   !.crops = Append(image.crops, << image.turns, box >>) ]

\* convert_to_b64: JPEG-encode, then base64
convert_to_b64(image) == << "base64", "JPEG", image >>

-----------------------------------------------------------------------------
(* Python list indexing *)

IndexOk(list, i) == -Len(list) <= i /\ i < Len(list)

Item(list, i) == IF i >= 0 THEN list[i + 1] ELSE list[Len(list) + i + 1]

-----------------------------------------------------------------------------
(* Initial state: the widgets and variables as main() constructs them *)

\* app.py's main(): its variables and the flags of its widgets
app_main ==
    [ selected_images |-> << >>,
      current_image |-> None,
      current_image_ind |-> 0,
      image_container_src |-> << >>,
      visible |-> [ swipe_left_btn |-> FALSE, swipe_right_btn |-> FALSE,
                    image_container |-> FALSE, image_block |-> FALSE,
                    tools_row |-> FALSE, selected_images_text |-> TRUE ],
      save_file_btn_disabled |-> TRUE,
      pending |-> [ dir |-> 0, files |-> 0 ],
      fault |-> "none",
      last |-> "main" ]

Init ==
    /\ selected_images_paths = << >>
    /\ current_image = None
    /\ current_image_ind = 0
    /\ image_container_src = << >>   \* src='', the empty string
    /\ visible = [ swipe_left_btn |-> FALSE, swipe_right_btn |-> FALSE,
                   image_container |-> FALSE, image_block |-> FALSE,
                   tools_row |-> FALSE, selected_images_paths_text |-> TRUE,
                   cropper |-> FALSE, crop_gesture_decector |-> FALSE ]
    /\ save_file_btn_disabled = TRUE
    /\ crop_area = [ width |-> crop_area_width, height |-> crop_area_height ]
    /\ cropper = [ left |-> None, top |-> None ]
    /\ crop_gesture_decector = [ left |-> None, top |-> None ]
    /\ resize_handle = [ width |-> None, height |-> None ]
    /\ pending = [ dir |-> 0, files |-> 0 ]
    /\ unreadable = {}
    /\ fault = "none"
    /\ last = "main"
    /\ answer = None
    /\ replaced = None
    /\ app = app_main

-----------------------------------------------------------------------------
(* Picking *)

\* (mutant) the tools row is not shown
toggle_visibility_no_tools(vis, paths) ==
    [ vis EXCEPT !.swipe_left_btn = Len(paths) > 1,
                 !.swipe_right_btn = Len(paths) > 1,
                 !.image_container = TRUE,
                 !.image_block = TRUE,
                 !.selected_images_paths_text = FALSE ]

\* toggle_visibility(): the flags after it ran with `paths` selected
toggle_visibility(vis, paths) ==
    [ vis EXCEPT !.swipe_left_btn = Len(paths) > 1,
                 !.swipe_right_btn = Len(paths) > 1,
                 !.image_container = TRUE,
                 !.image_block = TRUE,
                 !.tools_row = TRUE,
                 !.selected_images_paths_text = FALSE ]

\* the exception Image.open(paths[i]) raises, or "none"
OpenFault(paths, i) ==
    IF ~IndexOk(paths, i) THEN "IndexError"
    ELSE IF Item(paths, i) \in unreadable THEN "OSError"
    ELSE "none"

\* (mutant) the index is left as it was
update_current_image_ind_kept == current_image_ind

\* update_current_image() called with no image: the index it sets
update_current_image_ind == 0

\* The part of both pick handlers after `nonlocal selected_images_paths`:
\* assign the list, update_current_image(), toggle_visibility().
SelectPaths(paths) ==
    /\ selected_images_paths' = paths
    /\ fault' = OpenFault(paths, 0)
    /\ IF OpenFault(paths, 0) = "none"
       THEN /\ current_image' = Some(Open(Item(paths, 0)))
            /\ current_image_ind' = update_current_image_ind
            /\ image_container_src' = convert_to_b64(Open(Item(paths, 0)))
            /\ visible' = toggle_visibility(visible, paths)
            /\ save_file_btn_disabled' = FALSE
       ELSE UNCHANGED << current_image, current_image_ind, widgets >>

\* handle_pick_dir up to its await: the directory dialog opens
handle_pick_dir ==
    /\ pending.dir < MaxPending
    /\ pending' = [ pending EXCEPT !.dir = @ + 1 ]
    /\ last' = "handle_pick_dir"
    /\ answer' = None
    /\ replaced' = None
    /\ fault' = "none"
    /\ UNCHANGED << session, widgets, geometry, unreadable, app >>

\* (mutant) the list is assigned before the dismissal is noticed
handle_pick_dir_cancelled_late ==
    /\ pending.dir > 0
    /\ pending' = [ pending EXCEPT !.dir = @ - 1 ]
    /\ selected_images_paths' = << >>
    /\ last' = "handle_pick_dir_cancelled"
    /\ answer' = None
    /\ replaced' = None
    /\ fault' = "none"
    /\ UNCHANGED << current_image, current_image_ind, widgets, geometry, unreadable, app >>

\* the dialog is dismissed: `if not selected_dir: return`
handle_pick_dir_cancelled ==
    /\ pending.dir > 0
    /\ pending' = [ pending EXCEPT !.dir = @ - 1 ]
    /\ last' = "handle_pick_dir_cancelled"
    /\ answer' = None
    /\ replaced' = None
    /\ fault' = "none"
    /\ UNCHANGED << session, widgets, geometry, unreadable, app >>

\* (mutant) the handler yields to the event loop after assigning the list
pick_dir_selected_yielding(listing) ==
    /\ pending.dir > 0
    /\ pending' = [ pending EXCEPT !.dir = @ - 1 ]
    /\ selected_images_paths' = FilterImages(listing)
    /\ fault' = "none"
    /\ last' = "handle_pick_dir_selected"
    /\ answer' = Some(listing)
    /\ replaced' = None
    /\ UNCHANGED << current_image, current_image_ind, widgets, geometry, unreadable, app >>

\* the dialog is confirmed with a directory whose children are `listing`
pick_dir_selected(listing) ==
    /\ pending.dir > 0
    /\ pending' = [ pending EXCEPT !.dir = @ - 1 ]
    /\ \E paths \in { FilterImages(listing) } : SelectPaths(paths)
    /\ last' = "handle_pick_dir_selected"
    /\ answer' = Some(listing)
    /\ replaced' = None
    /\ UNCHANGED << geometry, unreadable, app >>

handle_pick_dir_selected == \E listing \in DirListings : pick_dir_selected(listing)

\* handle_pick_images up to its await: the file dialog opens
handle_pick_images ==
    /\ pending.files < MaxPending
    /\ pending' = [ pending EXCEPT !.files = @ + 1 ]
    /\ last' = "handle_pick_images"
    /\ answer' = None
    /\ replaced' = None
    /\ fault' = "none"
    /\ UNCHANGED << session, widgets, geometry, unreadable, app >>

\* the dialog is dismissed: `if not images: return`
handle_pick_images_cancelled ==
    /\ pending.files > 0
    /\ pending' = [ pending EXCEPT !.files = @ - 1 ]
    /\ last' = "handle_pick_images_cancelled"
    /\ answer' = None
    /\ replaced' = None
    /\ fault' = "none"
    /\ UNCHANGED << session, widgets, geometry, unreadable, app >>

\* the dialog is confirmed with the files `images`
pick_images_selected(images) ==
    /\ pending.files > 0
    /\ pending' = [ pending EXCEPT !.files = @ - 1 ]
    /\ SelectPaths(images)
    /\ last' = "handle_pick_images_selected"
    /\ answer' = Some(images)
    /\ replaced' = None
    /\ UNCHANGED << geometry, unreadable, app >>

handle_pick_images_selected == \E images \in FileSelections : pick_images_selected(images)

-----------------------------------------------------------------------------
(* Swiping *)

\* (mutant) no wrap-around: the first index stays
swipe_left_ind_clamped(ind, n) == IF ind <= 0 THEN ind ELSE ind - 1

\* the index swipe_left moves to, for a list of n paths
swipe_left_ind(ind, n) == IF ind <= 0 THEN n - 1 ELSE ind - 1

\* (mutant) no wrap-around: the last index stays
swipe_right_ind_clamped(ind, n) == IF ind >= n - 1 THEN ind ELSE ind + 1

\* the index swipe_right moves to, for a list of n paths
swipe_right_ind(ind, n) == IF ind >= n - 1 THEN 0 ELSE ind + 1

\* (mutant) the opened image is displayed but not kept in current_image
SwipeTo_display_only(ind) ==
    /\ current_image_ind' = ind
    /\ fault' = OpenFault(selected_images_paths, ind)
    /\ IF OpenFault(selected_images_paths, ind) = "none"
       THEN /\ image_container_src' =
                   convert_to_b64(Open(Item(selected_images_paths, ind)))
            /\ replaced' = current_image
       ELSE /\ UNCHANGED image_container_src
            /\ replaced' = None
    /\ UNCHANGED << selected_images_paths, current_image, visible,
                    save_file_btn_disabled, geometry, pending, unreadable, app >>

\* the tail of both swipe handlers: the index is assigned, then the path at
\* it is opened and displayed
SwipeTo(ind) ==
    /\ current_image_ind' = ind
    /\ fault' = OpenFault(selected_images_paths, ind)
    /\ IF OpenFault(selected_images_paths, ind) = "none"
       THEN /\ current_image' = Some(Open(Item(selected_images_paths, ind)))
            /\ image_container_src' =
                   convert_to_b64(Open(Item(selected_images_paths, ind)))
            /\ replaced' = current_image
       ELSE /\ UNCHANGED << current_image, image_container_src >>
            /\ replaced' = None
    /\ UNCHANGED << selected_images_paths, visible, save_file_btn_disabled,
                    geometry, pending, unreadable, app >>

swipe_left ==
    /\ SwipeTo(swipe_left_ind(current_image_ind, Len(selected_images_paths)))
    /\ last' = "swipe_left"
    /\ answer' = None

swipe_right ==
    /\ SwipeTo(swipe_right_ind(current_image_ind, Len(selected_images_paths)))
    /\ last' = "swipe_right"
    /\ answer' = None

-----------------------------------------------------------------------------
(* Rotating *)

\* both rotation handlers: return when no image is loaded, else rotate,
\* keep the result and display it
ApplyRotation(angle) ==
    /\ fault' = "none"
    /\ IF current_image = None
       THEN UNCHANGED << current_image, image_container_src >>
       ELSE /\ current_image' = Some(Rotate(Val(current_image), angle))
            /\ image_container_src' =
                   convert_to_b64(Rotate(Val(current_image), angle))
    /\ UNCHANGED << selected_images_paths, current_image_ind, visible,
                    save_file_btn_disabled, geometry, pending, unreadable, app >>

apply_left_rotation ==
    /\ ApplyRotation(90)
    /\ last' = "apply_left_rotation"
    /\ answer' = None
    /\ replaced' = None

apply_right_rotation ==
    /\ ApplyRotation(-90)
    /\ last' = "apply_right_rotation"
    /\ answer' = None
    /\ replaced' = None

-----------------------------------------------------------------------------
(* The crop overlay *)

\* drag events the gesture detectors deliver: the pointer's local position
\* and the local delta of one pan update
LocalPositions == { << 10, 10 >> }

MoveDeltas == { << 40, 40 >>, << -40, -40 >> }

ResizeDeltas == { << -250, -250 >>, << 250, 250 >> }

\* a gesture detector receives drags only while it is shown
OverlayShown ==
    visible.image_block /\ visible.crop_gesture_decector /\ visible.cropper

\* resize_crop_area: e.control is resize_handle
resize_crop_area ==
    \E delta \in ResizeDeltas :
        LET first == resize_handle.width = None
            dx == IF first THEN 0 ELSE delta[1]
            dy == IF first THEN 0 ELSE delta[2]
        IN  /\ OverlayShown
            /\ crop_area.width + dx \in -MaxExtent..MaxExtent
            /\ crop_area.height + dy \in -MaxExtent..MaxExtent
            /\ resize_handle' =
                   IF first
                   THEN [ width  |-> Some(resize_handle_size),
                          height |-> Some(resize_handle_size) ]
                   ELSE resize_handle
            /\ crop_area' = [ width  |-> crop_area.width + dx,
                              height |-> crop_area.height + dy ]
            /\ fault' = "none"
            /\ last' = "resize_crop_area"
            /\ answer' = None
            /\ replaced' = None
            /\ UNCHANGED << session, widgets, cropper, crop_gesture_decector,
                            pending, unreadable, app >>

\* change_cropper_position: e.control is crop_gesture_decector
change_cropper_position ==
    \E pos \in LocalPositions, delta \in MoveDeltas :
        LET first == crop_gesture_decector.top = None
            dx == IF first THEN 0 ELSE delta[1]
            dy == IF first THEN 0 ELSE delta[2]
            left == IF first THEN pos[1] ELSE Val(crop_gesture_decector.left)
            top == IF first THEN pos[2] ELSE Val(crop_gesture_decector.top)
        IN  /\ OverlayShown
            /\ left + dx \in -MaxOffset..MaxOffset
            /\ top + dy \in -MaxOffset..MaxOffset
            /\ crop_gesture_decector' = [ left |-> Some(left + dx),
                                          top  |-> Some(top + dy) ]
            /\ fault' = "none"
            /\ last' = "change_cropper_position"
            /\ answer' = None
            /\ replaced' = None
            /\ UNCHANGED << session, widgets, crop_area, cropper, resize_handle,
                            pending, unreadable, app >>

\* toggle_cropper_visibility: both flags are negated
toggle_cropper_visibility ==
    /\ visible' = [ visible EXCEPT
                        !.cropper = ~visible.cropper,
                        !.crop_gesture_decector = ~visible.crop_gesture_decector ]
    /\ fault' = "none"
    /\ last' = "toggle_cropper_visibility"
    /\ answer' = None
    /\ replaced' = None
    /\ UNCHANGED << session, image_container_src, save_file_btn_disabled,
                    geometry, pending, unreadable, app >>

\* the box crop_image computes: (left, top, left + width, top + height), read
\* from cropper and crop_area
crop_box ==
    << Val(cropper.left), Val(cropper.top),
       Val(cropper.left) + crop_area.width, Val(cropper.top) + crop_area.height >>

\* the exception crop_image raises, or "none": None + int at line 273,
\* None.crop at line 275, a box Image.crop rejects
crop_image_fault ==
    IF cropper.left = None \/ cropper.top = None THEN "TypeError"
    ELSE IF current_image = None THEN "AttributeError"
    ELSE IF ~CropOk(crop_box) THEN "ValueError"
    ELSE "none"

\* (mutant) the commit reads the position the move drags wrote, that of
\* crop_gesture_decector, and so runs to its last line
crop_image_at_dragged_position ==
    LET left == crop_gesture_decector.left
        top == crop_gesture_decector.top
        raised == IF left = None \/ top = None THEN "TypeError"
                  ELSE IF current_image = None THEN "AttributeError"
                  ELSE IF ~CropOk(<< Val(left), Val(top), Val(left) + crop_area.width,
                                     Val(top) + crop_area.height >>)
                  THEN "ValueError"
                  ELSE "none"
    IN  /\ fault' = raised
        /\ IF raised = "none"
           THEN /\ image_container_src' =
                       convert_to_b64(Crop(Val(current_image),
                                           << Val(left), Val(top),
                                              Val(left) + crop_area.width,
                                              Val(top) + crop_area.height >>))
                /\ visible' = [ visible EXCEPT !.crop_gesture_decector =
                                                   ~visible.crop_gesture_decector ]
           ELSE UNCHANGED << image_container_src, visible >>
        /\ last' = "crop_image"
        /\ answer' = None
        /\ replaced' = None
        /\ UNCHANGED << session, save_file_btn_disabled, geometry, pending,
                        unreadable, app >>

\* crop_image: the cropped image is a local of the handler; it is displayed
\* and crop_gesture_decector.visible is negated
crop_image ==
    /\ fault' = crop_image_fault
    /\ IF crop_image_fault = "none"
       THEN /\ image_container_src' = convert_to_b64(Crop(Val(current_image), crop_box))
            /\ visible' = [ visible EXCEPT !.crop_gesture_decector =
                                               ~visible.crop_gesture_decector ]
       ELSE UNCHANGED << image_container_src, visible >>
    /\ last' = "crop_image"
    /\ answer' = None
    /\ replaced' = None
    /\ UNCHANGED << session, save_file_btn_disabled, geometry, pending, unreadable, app >>

-----------------------------------------------------------------------------
(* The event loop: one handler (or one half of a pick handler) at a time *)

Next ==
    \/ handle_pick_dir
    \/ handle_pick_dir_cancelled
    \/ handle_pick_dir_selected
    \/ handle_pick_images
    \/ handle_pick_images_cancelled
    \/ handle_pick_images_selected
    \/ swipe_left
    \/ swipe_right
    \/ apply_left_rotation
    \/ apply_right_rotation
    \/ resize_crop_area
    \/ change_cropper_position
    \/ toggle_cropper_visibility
    \/ crop_image

Spec == Init /\ [][Next]_vars

\* the files of the directory that Image.open may fail to decode
CorruptFiles == { << "a", ".png" >>, << "c", ".JPG" >> }

\* the state after construction when one file on disk is corrupt
InitFault ==
    /\ selected_images_paths = << >>
    /\ current_image = None
    /\ current_image_ind = 0
    /\ image_container_src = << >>
    /\ visible = [ swipe_left_btn |-> FALSE, swipe_right_btn |-> FALSE,
                   image_container |-> FALSE, image_block |-> FALSE,
                   tools_row |-> FALSE, selected_images_paths_text |-> TRUE,
                   cropper |-> FALSE, crop_gesture_decector |-> FALSE ]
    /\ save_file_btn_disabled = TRUE
    /\ crop_area = [ width |-> crop_area_width, height |-> crop_area_height ]
    /\ cropper = [ left |-> None, top |-> None ]
    /\ crop_gesture_decector = [ left |-> None, top |-> None ]
    /\ resize_handle = [ width |-> None, height |-> None ]
    /\ pending = [ dir |-> 0, files |-> 0 ]
    /\ unreadable \in { { f } : f \in CorruptFiles }
    /\ fault = "none"
    /\ last = "main"
    /\ answer = None
    /\ replaced = None
    /\ app = app_main

SpecFault == InitFault /\ [][Next]_vars

-----------------------------------------------------------------------------
(* app.py: the variant that keeps the decoded images of a pick in a list.   *)
(* It has no keyboard handler: a handler runs only when its button is shown. *)

main_state == << selected_images_paths, current_image, current_image_ind,
                 image_container_src, visible, save_file_btn_disabled, crop_area,
                 cropper, crop_gesture_decector, resize_handle, pending,
                 unreadable, fault, last, answer, replaced >>

\* app.py's convert_to_b64: PNG-encode, then base64
app_convert_to_b64(image) == << "base64", "PNG", image >>

\* [Image.open(path) for path in images_paths]
OpenAll(images_paths) ==
    IF images_paths = << >> THEN << >>
    ELSE [ i \in 1..Len(images_paths) |-> Open(images_paths[i]) ]

\* app.py's toggle_visibility()
app_toggle_visibility(a) ==
    [ a EXCEPT !.visible.image_container = TRUE,
               !.visible.image_block = TRUE,
               !.visible.tools_row = TRUE,
               !.visible.selected_images_text = FALSE,
               !.save_file_btn_disabled = FALSE ]

\* process_images_paths(images_paths): the swipe buttons are shown for more
\* than one path, the paths are opened into selected_images, the first image
\* becomes current_image and is displayed; current_image_ind is not assigned
process_images_paths(a, images_paths) ==
    LET a1 == IF Len(images_paths) > 1
              THEN [ a EXCEPT !.visible.swipe_left_btn = TRUE,
                              !.visible.swipe_right_btn = TRUE ]
              ELSE a
        a2 == [ a1 EXCEPT !.selected_images = OpenAll(images_paths) ]
    IN  IF \E i \in 1..Len(images_paths) : images_paths[i] \in unreadable
        THEN [ a1 EXCEPT !.fault = "OSError" ]
        ELSE IF images_paths = << >>
        THEN [ a2 EXCEPT !.fault = "IndexError" ]
        ELSE [ a2 EXCEPT !.current_image = Some(Open(images_paths[1])),
                         !.image_container_src = app_convert_to_b64(Open(images_paths[1])),
                         !.fault = "none" ]

\* the part of both of app.py's pick handlers after the paths are known
app_select(a, images_paths) ==
    LET processed == process_images_paths(a, images_paths)
    IN  IF processed.fault = "none" THEN app_toggle_visibility(processed) ELSE processed

\* app.py's handle_pick_dir up to its await
app_handle_pick_dir ==
    /\ app.pending.dir < MaxPending
    /\ app' = [ app EXCEPT !.pending.dir = @ + 1, !.fault = "none",
                           !.last = "handle_pick_dir" ]
    /\ UNCHANGED main_state

\* `if not selected_dir: return`
app_handle_pick_dir_cancelled ==
    /\ app.pending.dir > 0
    /\ app' = [ app EXCEPT !.pending.dir = @ - 1, !.fault = "none",
                           !.last = "handle_pick_dir_cancelled" ]
    /\ UNCHANGED main_state

\* the directory dialog is confirmed
app_handle_pick_dir_selected ==
    \E listing \in DirListings :
        /\ app.pending.dir > 0
        /\ app' = [ app_select(app, FilterImages(listing)) EXCEPT
                        !.pending.dir = @ - 1, !.last = "handle_pick_dir_selected" ]
        /\ UNCHANGED main_state

\* handle_pick_file up to its await
app_handle_pick_file ==
    /\ app.pending.files < MaxPending
    /\ app' = [ app EXCEPT !.pending.files = @ + 1, !.fault = "none",
                           !.last = "handle_pick_file" ]
    /\ UNCHANGED main_state

\* `if not images: return`
app_handle_pick_file_cancelled ==
    /\ app.pending.files > 0
    /\ app' = [ app EXCEPT !.pending.files = @ - 1, !.fault = "none",
                           !.last = "handle_pick_file_cancelled" ]
    /\ UNCHANGED main_state

\* the file dialog is confirmed
app_handle_pick_file_selected ==
    \E images \in FileSelections :
        /\ app.pending.files > 0
        /\ app' = [ app_select(app, images) EXCEPT
                        !.pending.files = @ - 1, !.last = "handle_pick_file_selected" ]
        /\ UNCHANGED main_state

\* app.py's swipe_left: return at index <= 0, else take the image before
app_swipe_left_result(a) ==
    IF a.current_image_ind <= 0
    THEN [ a EXCEPT !.fault = "none" ]
    ELSE IF ~IndexOk(a.selected_images, a.current_image_ind - 1)
    THEN [ a EXCEPT !.fault = "IndexError" ]
    ELSE LET image == Item(a.selected_images, a.current_image_ind - 1)
         IN  [ a EXCEPT !.current_image = Some(image),
                        !.current_image_ind = @ - 1,
                        !.image_container_src = app_convert_to_b64(image),
                        !.fault = "none" ]

app_swipe_left ==
    /\ app.visible.swipe_left_btn
    /\ app' = [ app_swipe_left_result(app) EXCEPT !.last = "swipe_left" ]
    /\ UNCHANGED main_state

\* app.py's swipe_right: return at index >= len - 1, else take the image after
app_swipe_right_result(a) ==
    IF a.current_image_ind >= Len(a.selected_images) - 1
    THEN [ a EXCEPT !.fault = "none" ]
    ELSE IF ~IndexOk(a.selected_images, a.current_image_ind + 1)
    THEN [ a EXCEPT !.fault = "IndexError" ]
    ELSE LET image == Item(a.selected_images, a.current_image_ind + 1)
         IN  [ a EXCEPT !.current_image = Some(image),
                        !.current_image_ind = @ + 1,
                        !.image_container_src = app_convert_to_b64(image),
                        !.fault = "none" ]

app_swipe_right ==
    /\ app.visible.swipe_right_btn
    /\ app' = [ app_swipe_right_result(app) EXCEPT !.last = "swipe_right" ]
    /\ UNCHANGED main_state

\* app.py's rotation handlers
app_rotation_result(a, angle) ==
    IF a.current_image = None
    THEN [ a EXCEPT !.fault = "none" ]
    ELSE [ a EXCEPT !.current_image = Some(Rotate(Val(a.current_image), angle)),
                    !.image_container_src =
                        app_convert_to_b64(Rotate(Val(a.current_image), angle)),
                    !.fault = "none" ]

app_apply_left_rotation ==
    /\ app.visible.tools_row
    /\ app' = [ app_rotation_result(app, 90) EXCEPT !.last = "apply_left_rotation" ]
    /\ UNCHANGED main_state

app_apply_right_rotation ==
    /\ app.visible.tools_row
    /\ app' = [ app_rotation_result(app, -90) EXCEPT !.last = "apply_right_rotation" ]
    /\ UNCHANGED main_state

NextApp ==
    \/ app_handle_pick_dir
    \/ app_handle_pick_dir_cancelled
    \/ app_handle_pick_dir_selected
    \/ app_handle_pick_file
    \/ app_handle_pick_file_cancelled
    \/ app_handle_pick_file_selected
    \/ app_swipe_left
    \/ app_swipe_right
    \/ app_apply_left_rotation
    \/ app_apply_right_rotation

SpecApp == Init /\ [][NextApp]_vars

-----------------------------------------------------------------------------
(* Properties *)

Loaded == current_image # None

\* n consecutive applications of swipe_right's index step
RECURSIVE SwipeRightTimes(_, _, _)
SwipeRightTimes(k, ind, n) ==
    IF k = 0 THEN ind ELSE SwipeRightTimes(k - 1, swipe_right_ind(ind, n), n)

\* C1: with every decode succeeding, whenever selected_images_paths is
\* non-empty, 0 <= current_image_ind < len(selected_images_paths).
C1_IndexValid ==
    selected_images_paths # << >> =>
        0 <= current_image_ind /\ current_image_ind < Len(selected_images_paths)

\* swipe_left has just wrapped from the first of three images to the last
C1_Witness ==
    /\ last = "swipe_left"
    /\ fault = "none"
    /\ Len(selected_images_paths) = 3
    /\ current_image_ind = 2

\* the list a confirmed pick returned: the directory's children with an
\* allowed suffix, or the files chosen
Picked ==
    IF last = "handle_pick_dir_selected" THEN FilterImages(Val(answer)) ELSE Val(answer)

\* C2: a directory or file pick that returns a non-empty list L sets
\* selected_images_paths = L, current_image_ind = 0, current_image = the decode
\* of L[0], displays it, and shows the image display and the tools row.
C2_PickSelects ==
    (answer # None /\ Picked # << >>) =>
        /\ selected_images_paths = Picked
        /\ current_image_ind = 0
        /\ current_image = Some(Open(Picked[1]))
        /\ image_container_src = convert_to_b64(Open(Picked[1]))
        /\ visible.image_container /\ visible.image_block /\ visible.tools_row

\* a pick made over an earlier session: the overlay has already been dragged
C2_Witness ==
    /\ answer # None
    /\ Len(Picked) > 1
    /\ current_image_ind = 0
    /\ crop_gesture_decector.left # None

\* C3: swipe_left or swipe_right invoked while selected_images_paths is empty
\* raises no error and leaves current_image_ind, current_image and
\* selected_images_paths unchanged.
C3_SwipeOnEmptyIsNoOp ==
    [][ (last' \in { "swipe_left", "swipe_right" } /\ selected_images_paths = << >>)
            => (fault' = "none" /\ UNCHANGED session) ]_vars

\* C4: a directory pick whose directory holds no file with an allowed
\* extension leaves selected_images_paths and current_image unchanged, and the
\* swipe and rotation calls that follow it complete without raising.
C4_EmptyDirPickKeepsSession ==
    [][ /\ (last' = "handle_pick_dir_selected" /\ FilterImages(Val(answer')) = << >>)
              => UNCHANGED << selected_images_paths, current_image >>
        /\ ( /\ last = "handle_pick_dir_selected"
             /\ FilterImages(Val(answer)) = << >>
             /\ last' \in { "swipe_left", "swipe_right",
                            "apply_left_rotation", "apply_right_rotation" } )
              => fault' = "none" ]_vars

\* C5: a dismissed picker dialog leaves every session variable, every
\* visibility flag and the displayed image as they were: neither half of
\* either pick handler changes any of them.
C5_CancelChangesNothing ==
    [][ last' \in { "handle_pick_dir", "handle_pick_dir_cancelled",
                    "handle_pick_images", "handle_pick_images_cancelled" }
            => UNCHANGED << session, widgets, geometry >> ]_vars

\* a dismissal over a session that has a rotated image of a longer list
C5_Witness ==
    /\ last \in { "handle_pick_dir_cancelled", "handle_pick_images_cancelled" }
    /\ Len(selected_images_paths) > 1
    /\ current_image_ind > 0
    /\ Loaded
    /\ Val(current_image).turns # 0

\* C6: committing a crop replaces current_image with the cropped image, and
\* the displayed image is the encoding of current_image.
C6_CropReplacesCurrentImage ==
    [][ (last' = "crop_image" /\ Loaded)
            => /\ current_image' # None
               /\ Val(current_image').path = Val(current_image).path
               /\ Len(Val(current_image').crops) = Len(Val(current_image).crops) + 1
               /\ image_container_src' = convert_to_b64(Val(current_image')) ]_vars

\* C7: crop commit crops with the box (left, top, left + width, top + height)
\* of the overlay the move and resize drags established.
C7_CropUsesOverlayGeometry ==
    [][ ( /\ last' = "crop_image"
          /\ Loaded
          /\ crop_gesture_decector.left # None
          /\ crop_area.width >= 0 /\ crop_area.height >= 0 )
            => LET left == Val(crop_gesture_decector.left)
                   top == Val(crop_gesture_decector.top)
                   box == << left, top, left + crop_area.width, top + crop_area.height >>
               IN  image_container_src' = convert_to_b64(Crop(Val(current_image), box)) ]_vars

\* C8: crop commit with no image loaded raises no error and changes no
\* session variable and no visibility flag.
C8_CropWithoutImageIsNoOp ==
    [][ (last' = "crop_image" /\ ~Loaded)
            => (fault' = "none" /\ UNCHANGED << session, visible >>) ]_vars

\* C9: after every crop commit both cropper.visible and
\* crop_gesture_decector.visible are False.
C9_CommitHidesOverlay ==
    last = "crop_image" => (~visible.cropper /\ ~visible.crop_gesture_decector)

\* C10: on a non-empty list of n paths and a valid index, swipe_right moves
\* to (index + 1) mod n, and n consecutive swipe_right calls return to the
\* starting index.
C10_SwipeRightCycles ==
    [][ ( /\ last' = "swipe_right"
          /\ selected_images_paths # << >>
          /\ IndexOk(selected_images_paths, current_image_ind)
          /\ current_image_ind >= 0 )
            => LET n == Len(selected_images_paths)
               IN  /\ current_image_ind' = (current_image_ind + 1) % n
                   /\ SwipeRightTimes(n, current_image_ind, n) = current_image_ind
                   /\ \A k \in 0..n :
                          SwipeRightTimes(k, current_image_ind, n)
                              = (current_image_ind + k) % n ]_vars

\* swipe_right has just wrapped from the last of three images to the first
C10_Witness ==
    /\ last = "swipe_right"
    /\ fault = "none"
    /\ Len(selected_images_paths) = 3
    /\ current_image_ind = 0

\* C11: on a list of length >= 2 and a valid index i, swipe_left followed by
\* swipe_right, and swipe_right followed by swipe_left, both leave
\* current_image_ind = i.
C11_SwipesAreInverse ==
    [][ ( /\ last' \in { "swipe_left", "swipe_right" }
          /\ Len(selected_images_paths) >= 2
          /\ IndexOk(selected_images_paths, current_image_ind)
          /\ current_image_ind >= 0 )
            => LET n == Len(selected_images_paths)
                   i == current_image_ind
               IN  /\ last' = "swipe_left" =>
                          /\ current_image_ind' = swipe_left_ind(i, n)
                          /\ swipe_right_ind(current_image_ind', n) = i
                   /\ last' = "swipe_right" =>
                          /\ current_image_ind' = swipe_right_ind(i, n)
                          /\ swipe_left_ind(current_image_ind', n) = i ]_vars

\* swipe_left has just wrapped from the first of two images to the second
C11_Witness ==
    /\ last = "swipe_left"
    /\ fault = "none"
    /\ Len(selected_images_paths) = 2
    /\ current_image_ind = 1

\* C12: in every reachable state the swipe buttons are visible only if
\* len(selected_images_paths) > 1.
C12_SwipeButtonsOnlyForSeveral ==
    (visible.swipe_left_btn \/ visible.swipe_right_btn)
        => Len(selected_images_paths) > 1

\* C13: each time toggle_cropper_visibility takes the overlay from hidden to
\* visible, the overlay geometry is the default box again (300 x 300, no
\* position), whatever drags were made while it was visible before.
C13_ShowResetsGeometry ==
    [][ ( /\ last' = "toggle_cropper_visibility"
          /\ ~visible.cropper
          /\ visible'.cropper )
            => /\ crop_area' = [ width |-> crop_area_width, height |-> crop_area_height ]
               /\ crop_gesture_decector' = [ left |-> None, top |-> None ]
               /\ cropper' = [ left |-> None, top |-> None ] ]_vars

\* C14: in every reachable state crop_area.width >= 20 and
\* crop_area.height >= 20 (the resize handle size).
C14_CropAreaNotBelowHandle ==
    crop_area.width >= resize_handle_size /\ crop_area.height >= resize_handle_size

\* C15: every swipe sets current_image to a fresh decode of the path at the
\* new index, so no rotation (or crop) survives a swipe: after transforming
\* the image at index i of a list of length >= 2, swiping to an adjacent
\* image and back yields the untransformed decode of selected_images_paths[i].
C15_SwipeDiscardsTransform ==
    [][ /\ (last' \in { "swipe_left", "swipe_right" } /\ fault' = "none")
              => /\ current_image' =
                        Some(Open(Item(selected_images_paths, current_image_ind')))
                 /\ image_container_src' = convert_to_b64(Val(current_image'))
        /\ ( /\ Len(selected_images_paths) >= 2
             /\ replaced # None
             /\ \/ last = "swipe_left" /\ last' = "swipe_right"
                \/ last = "swipe_right" /\ last' = "swipe_left" )
              => current_image' = Some(Open(Val(replaced).path)) ]_vars

\* swipe_left has just left a rotated image for an adjacent, freshly decoded one
C15_Witness ==
    /\ last = "swipe_left"
    /\ fault = "none"
    /\ Len(selected_images_paths) >= 2
    /\ replaced # None
    /\ Val(replaced).turns # 0
    /\ Val(current_image).turns = 0
    /\ Val(current_image).path # Val(replaced).path

Swapped(size) == << size[2], size[1] >>

\* C16: with an image loaded, a left rotation adds and a right rotation
\* removes a quarter turn, so the image's (width, height) is the original
\* after an even number of rotations and the swapped pair after an odd
\* number, and the image is the original exactly when lefts - rights is a
\* multiple of 4; four lefts, and a left then a right, restore the original.
\* With no image loaded a rotation changes nothing.
C16_RotationsCompose ==
    [][ last' \in { "apply_left_rotation", "apply_right_rotation" } =>
          IF ~Loaded
          THEN fault' = "none" /\ UNCHANGED << session, widgets >>
          ELSE LET image == Val(current_image)
                   after == Val(current_image')
                   native == NativeSize(image.path)
               IN  /\ after.size = Swapped(image.size)
                   /\ after.turns = (image.turns +
                          (IF last' = "apply_left_rotation" THEN 1 ELSE 3)) % 4
                   /\ after.size = IF after.turns % 2 = 0 THEN native ELSE Swapped(native)
                   /\ (after = Open(image.path)) <=> (after.turns = 0)
                   /\ Rotate(Rotate(Rotate(Rotate(image, 90), 90), 90), 90) = image
                   /\ Rotate(Rotate(image, 90), -90) = image
                   /\ Rotate(Rotate(image, -90), 90) = image
                   /\ image_container_src' = convert_to_b64(after) ]_vars

\* a 200 x 100 image after three quarter turns to the right
C16_Witness ==
    /\ last = "apply_right_rotation"
    /\ Loaded
    /\ Val(current_image).turns = 1
    /\ Val(current_image).size = << 100, 200 >>
    /\ NativeSize(Val(current_image).path) = << 200, 100 >>

\* the place of a child in a directory listing (listings hold no child twice)
PlaceIn(listing, path) == CHOOSE k \in 1..Len(listing) : listing[k] = path

\* C17: handle_pick_dir sets selected_images_paths to exactly the children of
\* the chosen directory whose suffix, lower-cased, is .jpg, .jpeg, .png or
\* .webp, in enumeration order: a.png, b.txt, c.JPG, d.webp gives a.png,
\* c.JPG, d.webp.
C17_DirPickFilters ==
    last = "handle_pick_dir_selected" =>
        LET listing == Val(answer)
            paths == selected_images_paths
            allowed(path) == lower(suffix(path)) \in { ".jpg", ".jpeg", ".png", ".webp" }
        IN  /\ \A i \in 1..Len(paths) :
                   /\ \E k \in 1..Len(listing) : listing[k] = paths[i]
                   /\ allowed(paths[i])
            /\ \A k \in 1..Len(listing) :
                   allowed(listing[k]) => \E i \in 1..Len(paths) : paths[i] = listing[k]
            /\ \A i, j \in 1..Len(paths) :
                   i < j => PlaceIn(listing, paths[i]) < PlaceIn(listing, paths[j])
            /\ listing = << <<"a", ".png">>, <<"b", ".txt">>, <<"c", ".JPG">>, <<"d", ".webp">> >>
                   => paths = << <<"a", ".png">>, <<"c", ".JPG">>, <<"d", ".webp">> >>

\* the directory a.png, b.txt, c.JPG, d.webp has just been picked
C17_Witness ==
    /\ last = "handle_pick_dir_selected"
    /\ Val(answer) = << <<"a", ".png">>, <<"b", ".txt">>, <<"c", ".JPG">>, <<"d", ".webp">> >>
    /\ Len(selected_images_paths) = 3

\* C18: the part of a pick handler after its await runs without yielding,
\* so under every interleaving of handlers with pending dialogs no state
\* shows a partially applied pick (a non-empty list always comes with a
\* valid index and the image of the path at that index), and a pending pick
\* confirmed with a non-empty list L leaves paths = L, index = 0 and
\* current_image = the decode of L[0], whatever ran while it was pending.
C18_PicksAreAtomic ==
    /\ selected_images_paths # << >> =>
           /\ current_image_ind >= 0
           /\ IndexOk(selected_images_paths, current_image_ind)
           /\ Loaded
           /\ Val(current_image).path = Item(selected_images_paths, current_image_ind)
    /\ (answer # None /\ Picked # << >>) =>
           session = << Picked, Some(Open(Picked[1])), 0 >>

\* a pick confirmed while the other dialog is still pending, over a session
\* whose overlay has been dragged
C18_Witness ==
    /\ answer # None
    /\ Picked # << >>
    /\ pending.dir + pending.files > 0
    /\ resize_handle.width # None

\* C19: in app.py, in every state reachable by picks and swipes,
\* current_image_ind is a valid index into selected_images, and right after a
\* pick or a swipe an image no rotation has touched is
\* selected_images[current_image_ind]; no swipe indexes outside the list.
C19_AppIndexValid ==
    app.selected_images # << >> =>
        /\ 0 <= app.current_image_ind
        /\ app.current_image_ind < Len(app.selected_images)
        /\ ( /\ app.last \in { "handle_pick_dir_selected",
                              "handle_pick_file_selected",
                              "swipe_left", "swipe_right" }
             /\ app.current_image = Some(Open(Val(app.current_image).path)) )
               => app.current_image =
                      Some(Item(app.selected_images, app.current_image_ind))
        /\ app.last \in { "swipe_left", "swipe_right" } => app.fault # "IndexError"

\* C20: in app.py, swipe_left at index 0 wraps to len(selected_images) - 1 and
\* swipe_right at the last index wraps to 0, so every swipe on a list of
\* length >= 2 changes the current image.
C20_AppSwipesWrap ==
    [][ ( /\ app'.last \in { "swipe_left", "swipe_right" }
          /\ app' # app
          /\ Len(app.selected_images) >= 2
          /\ 0 <= app.current_image_ind
          /\ app.current_image_ind < Len(app.selected_images) )
            => LET n == Len(app.selected_images)
                   i == app.current_image_ind
               IN  /\ app'.last = "swipe_left" =>
                          app'.current_image_ind = (IF i = 0 THEN n - 1 ELSE i - 1)
                   /\ app'.last = "swipe_right" =>
                          app'.current_image_ind = (IF i = n - 1 THEN 0 ELSE i + 1)
                   /\ app'.current_image_ind # i ]_vars

C22_FaultLeavesSession ==
    [][ ( /\ fault' \in { "OSError", "IndexError" }
          /\ selected_images_paths # << >>
          /\ current_image_ind >= 0
          /\ IndexOk(selected_images_paths, current_image_ind)
          /\ Loaded
          /\ Val(current_image).path = Item(selected_images_paths, current_image_ind) )
            => /\ UNCHANGED session
               /\ IndexOk(selected_images_paths', current_image_ind')
               /\ Val(current_image').path =
                      Item(selected_images_paths', current_image_ind') ]_vars

====
